---------------------------- MODULE Spec2Model ----------------------------
(***************************************************************************)
(* pelicanconf.py: the settings module of a Pelican site.                  *)
(*                                                                         *)
(* The file is a Python module made of 27 assignments of literals to       *)
(* names.  Loading it is what the program does: the text is tokenized,     *)
(* the token stream is parsed statement by statement into code objects,    *)
(* and the statements are then executed top to bottom, each binding one    *)
(* name in the module namespace.  The model is that load:                  *)
(*                                                                         *)
(*   - the token stream of the file, one definition per statement, under   *)
(*     the name of the setting it assigns (strings are sequences of        *)
(*     one-character strings, so that properties can look inside them);    *)
(*   - the parser, one token per step (Target, Assign, Load, Open, Sep,    *)
(*     Close, EndStmt, EndMarker), for the grammar the file uses:          *)
(*         NAME '=' expr NEWLINE,   expr a string, a number, a name, or a  *)
(*         parenthesised, tuple, list or dict display of exprs;            *)
(*   - the execution, one statement per step (Exec), which evaluates the   *)
(*     right-hand side in the namespace built so far and binds the name.   *)
(*                                                                         *)
(* A syntax error stops the load before any statement runs; the use of an  *)
(* unbound name stops it at the statement that uses it.                    *)
(***************************************************************************)
EXTENDS Naturals, Sequences, FiniteSets

VARIABLES
    phase,   \* "compile", "exec", "done" or "error"
    err,     \* "" or the exception that ended the load
    ip,      \* index of the next token of the file
    at,      \* parser position in a statement: "target", "assign" or "expr"
    lhs,     \* the target name of the statement being parsed
    stack,   \* open displays of the expression being parsed, innermost last
    code,    \* the statements parsed so far: [target, value]
    pc,      \* index of the next statement to execute
    ns,      \* the module namespace: setting name -> value
    reads    \* names whose value some right-hand side has read

vars == <<phase, err, ip, at, lhs, stack, code, pc, ns, reads>>

---------------------------------------------------------------------------
(* Tokens, as tokenize yields them (COMMENT and NL tokens are dropped by   *)
(* the parser and left out).  Every token has the same four fields.        *)

StrTok(cs)  == [k |-> "STRING",  s |-> cs,   n |-> 0, w |-> ""]
NumTok(n)   == [k |-> "NUMBER",  s |-> <<>>, n |-> n, w |-> ""]
NameTok(w)  == [k |-> "NAME",    s |-> <<>>, n |-> 0, w |-> w]
OpTok(w)    == [k |-> "OP",      s |-> <<>>, n |-> 0, w |-> w]
NewlineTok  == [k |-> "NEWLINE", s |-> <<>>, n |-> 0, w |-> ""]
EndTok      == [k |-> "ENDMARKER", s |-> <<>>, n |-> 0, w |-> ""]

---------------------------------------------------------------------------
(* The file, statement by statement.                                       *)

\* pelicanconf.py line 1
AUTHOR ==
    << NameTok("AUTHOR"), OpTok("="),
       StrTok(<<"L","e","o","n"," ","R","a","m","z","e","w","s">>),
       NewlineTok >>

\* pelicanconf.py line 2
SITENAME ==
    << NameTok("SITENAME"), OpTok("="),
       StrTok(<<"R","o","a","d"," ","t","o"," ","D","e","v">>),
       NewlineTok >>

\* pelicanconf.py line 3
SITEURL ==
    << NameTok("SITEURL"), OpTok("="),
       StrTok(<<"h","t","t","p",":","/","/","1","2","7",".","0",".","0",".","1",":","8","0",
              "0","0">>),
       NewlineTok >>

\* pelicanconf.py line 4
TIMEZONE ==
    << NameTok("TIMEZONE"), OpTok("="),
       StrTok(<<"E","u","r","o","p","e","/","B","e","r","l","i","n">>),
       NewlineTok >>

\* pelicanconf.py line 5
DEFAULT_LANG ==
    << NameTok("DEFAULT_LANG"), OpTok("="), StrTok(<<"e","n">>), NewlineTok >>

\* pelicanconf.py line 7
SUBTITLE ==
    << NameTok("SUBTITLE"), OpTok("="),
       StrTok(<<"H","e","y",","," ","m","y"," ","n","a","m","e"," ","i","s"," ","L","e","o",
              "n",".">>),
       NewlineTok >>

\* pelicanconf.py lines 8-11
SUBTEXT ==
    << NameTok("SUBTEXT"), OpTok("="),
       StrTok(<<"I","'","m"," ","a","n"," ","a","s","p","i","r","i","n","g"," ","p","r","o",
              "g","r","a","m","m","e","r","."," ","\n","T","h","i","s"," ","b","l","o","g",
              " ","d","o","c","u","m","e","n","t","s"," ","t","h","e"," ","k","n","o","w",
              "l","e","d","g","e"," ","a","n","d"," ","i","n","s","i","g","h","t","s"," ",
              "I"," ","g","a","t","h","e","r"," ","a","l","o","n","g"," ","t","h","e"," ",
              "w","a","y",","," ","s","h","a","r","i","n","g"," ","m","y"," ","p","r","o",
              "g","r","e","s","s"," ","a","n","d"," ","d","i","s","c","o","v","e","r","i",
              "e","s"," ","o","n"," ","t","h","e"," ","r","o","a","d"," ","t","o"," ","d",
              "e","v",".","\n","W","r","i","t","t","e","n"," ","w","i","t","h"," ","t","h",
              "e"," ","h","e","l","p"," ","o","f"," ","G","P","T",".","\n">>),
       NewlineTok >>

\* pelicanconf.py line 12
COPYRIGHT ==
    << NameTok("COPYRIGHT"), OpTok("="), StrTok(<<"©","2","0","2","4">>), NewlineTok >>

\* pelicanconf.py line 13
PATH ==
    << NameTok("PATH"), OpTok("="), StrTok(<<"c","o","n","t","e","n","t">>), NewlineTok >>

\* pelicanconf.py line 14
THEME ==
    << NameTok("THEME"), OpTok("="),
       StrTok(<<"t","h","e","m","e","s","/","P","a","p","y","r","u","s">>),
       NewlineTok >>

\* pelicanconf.py line 15
THEME_STATIC_PATHS ==
    << NameTok("THEME_STATIC_PATHS"), OpTok("="), OpTok("["),
       StrTok(<<"s","t","a","t","i","c">>), OpTok("]"), NewlineTok >>

\* pelicanconf.py line 16
PLUGIN_PATHS ==
    << NameTok("PLUGIN_PATHS"), OpTok("="), OpTok("["),
       StrTok(<<"p","e","l","i","c","a","n","-","p","l","u","g","i","n","s">>),
       OpTok("]"), NewlineTok >>

\* pelicanconf.py line 17
PLUGINS ==
    << NameTok("PLUGINS"), OpTok("="), OpTok("["),
       StrTok(<<"p","e","l","i","c","a","n","-","t","o","c">>),
       OpTok("]"), NewlineTok >>

\* The statement without its last element, 'extra/robots.txt'.
STATIC_PATHS_without_robots ==
    << NameTok("STATIC_PATHS"), OpTok("="), OpTok("["), StrTok(<<"i","m","a","g","e","s">>),
       OpTok(","),
       StrTok(<<"i","m","a","g","e","s","/","f","a","v","i","c","o","n",".","i","c","o">>),
       OpTok(","),
       OpTok("]"), NewlineTok >>

\* pelicanconf.py lines 18-22
STATIC_PATHS ==
    << NameTok("STATIC_PATHS"), OpTok("="), OpTok("["), StrTok(<<"i","m","a","g","e","s">>),
       OpTok(","),
       StrTok(<<"i","m","a","g","e","s","/","f","a","v","i","c","o","n",".","i","c","o">>),
       OpTok(","),
       StrTok(<<"e","x","t","r","a","/","r","o","b","o","t","s",".","t","x","t">>),
       OpTok(","), OpTok("]"), NewlineTok >>

\* pelicanconf.py lines 23-26
EXTRA_PATH_METADATA ==
    << NameTok("EXTRA_PATH_METADATA"), OpTok("="), OpTok("{"),
       StrTok(<<"e","x","t","r","a","/","r","o","b","o","t","s",".","t","x","t">>),
       OpTok(":"), OpTok("{"), StrTok(<<"p","a","t","h">>), OpTok(":"),
       StrTok(<<"r","o","b","o","t","s",".","t","x","t">>),
       OpTok("}"), OpTok(","),
       StrTok(<<"i","m","a","g","e","s","/","f","a","v","i","c","o","n",".","i","c","o">>),
       OpTok(":"), OpTok("{"), StrTok(<<"p","a","t","h">>), OpTok(":"),
       StrTok(<<"f","a","v","i","c","o","n",".","i","c","o">>),
       OpTok("}"), OpTok(","), OpTok("}"), NewlineTok >>

\* pelicanconf.py line 27
DISPLAY_PAGES_ON_MENU ==
    << NameTok("DISPLAY_PAGES_ON_MENU"), OpTok("="), NameTok("True"), NewlineTok >>

\* The statement with a comma after the inner parentheses, which makes the
\* outer ones a tuple: (('index', 'tags', 'categories', 'archives',),).
DIRECT_TEMPLATES_nested ==
    << NameTok("DIRECT_TEMPLATES"), OpTok("="), OpTok("("), OpTok("("),
       StrTok(<<"i","n","d","e","x">>), OpTok(","), StrTok(<<"t","a","g","s">>), OpTok(","),
       StrTok(<<"c","a","t","e","g","o","r","i","e","s">>),
       OpTok(","),
       StrTok(<<"a","r","c","h","i","v","e","s">>),
       OpTok(","), OpTok(")"), OpTok(","), OpTok(")"), NewlineTok >>

\* pelicanconf.py line 28
DIRECT_TEMPLATES ==
    << NameTok("DIRECT_TEMPLATES"), OpTok("="), OpTok("("), OpTok("("),
       StrTok(<<"i","n","d","e","x">>), OpTok(","), StrTok(<<"t","a","g","s">>), OpTok(","),
       StrTok(<<"c","a","t","e","g","o","r","i","e","s">>),
       OpTok(","),
       StrTok(<<"a","r","c","h","i","v","e","s">>),
       OpTok(","), OpTok(")"), OpTok(")"), NewlineTok >>

\* The statement with the page size of archives written as a string:
\* 'archives': '24'.
PAGINATED_TEMPLATES_quoted ==
    << NameTok("PAGINATED_TEMPLATES"), OpTok("="), OpTok("{"), StrTok(<<"i","n","d","e","x">>),
       OpTok(":"), NameTok("None"), OpTok(","), StrTok(<<"t","a","g">>), OpTok(":"),
       NameTok("None"), OpTok(","),
       StrTok(<<"c","a","t","e","g","o","r","y">>),
       OpTok(":"), NameTok("None"), OpTok(","), StrTok(<<"a","u","t","h","o","r">>),
       OpTok(":"), NameTok("None"), OpTok(","),
       StrTok(<<"a","r","c","h","i","v","e","s">>),
       OpTok(":"), StrTok(<<"2","4">>), OpTok(","), OpTok("}"), NewlineTok >>

\* pelicanconf.py line 29
PAGINATED_TEMPLATES ==
    << NameTok("PAGINATED_TEMPLATES"), OpTok("="), OpTok("{"), StrTok(<<"i","n","d","e","x">>),
       OpTok(":"), NameTok("None"), OpTok(","), StrTok(<<"t","a","g">>), OpTok(":"),
       NameTok("None"), OpTok(","),
       StrTok(<<"c","a","t","e","g","o","r","y">>),
       OpTok(":"), NameTok("None"), OpTok(","), StrTok(<<"a","u","t","h","o","r">>),
       OpTok(":"), NameTok("None"), OpTok(","),
       StrTok(<<"a","r","c","h","i","v","e","s">>),
       OpTok(":"), NumTok(24), OpTok(","), OpTok("}"), NewlineTok >>

\* The statement with the pattern left unanchored: 'TOC_HEADERS': 'h[1-3]'.
TOC_unanchored ==
    << NameTok("TOC"), OpTok("="), OpTok("{"),
       StrTok(<<"T","O","C","_","H","E","A","D","E","R","S">>),
       OpTok(":"), StrTok(<<"h","[","1","-","3","]">>), OpTok(","),
       StrTok(<<"T","O","C","_","R","U","N">>), OpTok(":"), StrTok(<<"t","r","u","e">>),
       OpTok(","),
       StrTok(<<"T","O","C","_","I","N","C","L","U","D","E","_","T","I","T","L","E">>),
       OpTok(":"), StrTok(<<"f","a","l","s","e">>), OpTok(","), OpTok("}"), NewlineTok >>

\* pelicanconf.py lines 35-43
TOC ==
    << NameTok("TOC"), OpTok("="), OpTok("{"),
       StrTok(<<"T","O","C","_","H","E","A","D","E","R","S">>),
       OpTok(":"), StrTok(<<"^","h","[","1","-","3","]">>), OpTok(","),
       StrTok(<<"T","O","C","_","R","U","N">>), OpTok(":"), StrTok(<<"t","r","u","e">>),
       OpTok(","),
       StrTok(<<"T","O","C","_","I","N","C","L","U","D","E","_","T","I","T","L","E">>),
       OpTok(":"), StrTok(<<"f","a","l","s","e">>), OpTok(","), OpTok("}"), NewlineTok >>

\* pelicanconf.py line 46
FEED_ALL_ATOM ==
    << NameTok("FEED_ALL_ATOM"), OpTok("="),
       StrTok(<<"f","e","e","d","s","/","a","l","l",".","a","t","o","m",".","x","m","l">>),
       NewlineTok >>

\* The statement with the category feed switched on:
\* CATEGORY_FEED_ATOM = 'feeds/category.atom.xml'.
CATEGORY_FEED_ATOM_enabled ==
    << NameTok("CATEGORY_FEED_ATOM"), OpTok("="),
       StrTok(<<"f","e","e","d","s","/","c","a","t","e","g","o","r","y",".","a","t","o","m",
              ".","x","m","l">>),
       NewlineTok >>

\* pelicanconf.py line 47
CATEGORY_FEED_ATOM ==
    << NameTok("CATEGORY_FEED_ATOM"), OpTok("="), NameTok("None"), NewlineTok >>

\* pelicanconf.py line 48
TRANSLATION_FEED_ATOM ==
    << NameTok("TRANSLATION_FEED_ATOM"), OpTok("="), NameTok("None"), NewlineTok >>

\* pelicanconf.py line 49
AUTHOR_FEED_ATOM ==
    << NameTok("AUTHOR_FEED_ATOM"), OpTok("="), NameTok("None"), NewlineTok >>

\* pelicanconf.py line 50
AUTHOR_FEED_RSS ==
    << NameTok("AUTHOR_FEED_RSS"), OpTok("="), NameTok("None"), NewlineTok >>

\* The statement with the constant written in lower case, which makes it
\* a name: RSS_FEED_SUMMARY_ONLY = true.
RSS_FEED_SUMMARY_ONLY_lowercase ==
    << NameTok("RSS_FEED_SUMMARY_ONLY"), OpTok("="), NameTok("true"), NewlineTok >>

\* pelicanconf.py line 51
RSS_FEED_SUMMARY_ONLY ==
    << NameTok("RSS_FEED_SUMMARY_ONLY"), OpTok("="), NameTok("True"), NewlineTok >>

\* pelicanconf.py lines 60-67
SHARE ==
    << NameTok("SHARE"), OpTok("="), OpTok("("), OpTok("("),
       StrTok(<<"t","w","i","t","t","e","r">>), OpTok(","),
       StrTok(<<"h","t","t","p","s",":","/","/","t","w","i","t","t","e","r",".","c","o","m",
              "/","i","n","t","e","n","t","/","t","w","e","e","t","/","?","t","e","x","t",
              "=","F","e","a","t","u","r","e","s","&","a","m","p",";","u","r","l","=">>),
       OpTok(")"), OpTok(","), OpTok("("),
       StrTok(<<"l","i","n","k","e","d","i","n">>),
       OpTok(","),
       StrTok(<<"h","t","t","p","s",":","/","/","w","w","w",".","l","i","n","k","e","d","i",
              "n",".","c","o","m","/","s","h","a","r","i","n","g","/","s","h","a","r","e",
              "-","o","f","f","s","i","t","e","/","?","u","r","l","=">>),
       OpTok(")"), OpTok(","), OpTok("("), StrTok(<<"r","e","d","d","i","t">>), OpTok(","),
       StrTok(<<"h","t","t","p","s",":","/","/","r","e","d","d","i","t",".","c","o","m","/",
              "s","u","b","m","i","t","?","u","r","l","=">>),
       OpTok(")"), OpTok(","), OpTok("("),
       StrTok(<<"f","a","c","e","b","o","o","k">>),
       OpTok(","),
       StrTok(<<"h","t","t","p","s",":","/","/","f","a","c","e","b","o","o","k",".","c","o",
              "m","/","s","h","a","r","e","r","/","s","h","a","r","e","r",".","p","h","p",
              "?","u","=">>),
       OpTok(")"), OpTok(","), OpTok("("),
       StrTok(<<"w","h","a","t","s","a","p","p">>),
       OpTok(","),
       StrTok(<<"h","t","t","p","s",":","/","/","a","p","i",".","w","h","a","t","s","a","p",
              "p",".","c","o","m","/","s","e","n","d","?","t","e","x","t","=","F","e","a",
              "t","u","r","e","s"," ","-"," ">>),
       OpTok(")"), OpTok(","), OpTok("("),
       StrTok(<<"t","e","l","e","g","r","a","m">>),
       OpTok(","),
       StrTok(<<"h","t","t","p","s",":","/","/","t","e","l","e","g","r","a","m",".","m","e",
              "/","s","h","a","r","e","/","u","r","l","?","t","e","x","t","=","F","e","a",
              "t","u","r","e","s","&","a","m","p",";","u","r","l","=">>),
       OpTok(")"), OpTok(","), OpTok(")"), NewlineTok >>

\* The statement followed by a second assignment of the same name:
\* DEFAULT_PAGINATION = 8, then DEFAULT_PAGINATION = 10.
DEFAULT_PAGINATION_twice ==
    << NameTok("DEFAULT_PAGINATION"), OpTok("="), NumTok(8), NewlineTok,
       NameTok("DEFAULT_PAGINATION"), OpTok("="), NumTok(10), NewlineTok >>

\* pelicanconf.py line 69
DEFAULT_PAGINATION ==
    << NameTok("DEFAULT_PAGINATION"), OpTok("="), NumTok(8), NewlineTok >>
---------------------------------------------------------------------------
(* The token stream of the whole file, in source order.                    *)

Statements ==
    << AUTHOR, SITENAME, SITEURL, TIMEZONE, DEFAULT_LANG, SUBTITLE, SUBTEXT,
       COPYRIGHT, PATH, THEME, THEME_STATIC_PATHS, PLUGIN_PATHS, PLUGINS,
       STATIC_PATHS, EXTRA_PATH_METADATA, DISPLAY_PAGES_ON_MENU,
       DIRECT_TEMPLATES, PAGINATED_TEMPLATES, TOC, FEED_ALL_ATOM,
       CATEGORY_FEED_ATOM, TRANSLATION_FEED_ATOM, AUTHOR_FEED_ATOM,
       AUTHOR_FEED_RSS, RSS_FEED_SUMMARY_ONLY, SHARE, DEFAULT_PAGINATION >>

RECURSIVE Flatten(_)
Flatten(ss) == IF ss = <<>> THEN <<>> ELSE Head(ss) \o Flatten(Tail(ss))

pelicanconf == Flatten(Statements) \o <<EndTok>>

---------------------------------------------------------------------------
(* Python values and expression nodes.  Every one has the same six fields: *)
(* t the type, s the characters of a str, i the integer of an int, b the   *)
(* truth value of a bool, items the elements of a tuple, list or dict (a   *)
(* dict's are its key/value items, in insertion order), id the identifier  *)
(* of a name node (expression nodes only).                                 *)

V(t, s, i, b, items, id) ==
    [t |-> t, s |-> s, i |-> i, b |-> b, items |-> items, id |-> id]

StrV(cs)      == V("str", cs, 0, FALSE, <<>>, "")
IntV(n)       == V("int", <<>>, n, FALSE, <<>>, "")
BoolV(b)      == V("bool", <<>>, 0, b, <<>>, "")
NoneV         == V("NoneType", <<>>, 0, FALSE, <<>>, "")
TupleV(xs)    == V("tuple", <<>>, 0, FALSE, xs, "")
ListV(xs)     == V("list", <<>>, 0, FALSE, xs, "")
ItemV(key, v) == V("item", <<>>, 0, FALSE, <<key, v>>, "")
DictV(kvs)    == V("dict", <<>>, 0, FALSE, kvs, "")
NameV(id)     == V("name", <<>>, 0, FALSE, <<>>, id)

(* The node of an atom token.  None, True and False are keywords.          *)
Atom(tok) ==
    CASE tok.k = "STRING" -> StrV(tok.s)
      [] tok.k = "NUMBER" -> IntV(tok.n)
      [] tok.k = "NAME" /\ tok.w = "None"  -> NoneV
      [] tok.k = "NAME" /\ tok.w = "True"  -> BoolV(TRUE)
      [] tok.k = "NAME" /\ tok.w = "False" -> BoolV(FALSE)
      [] OTHER -> NameV(tok.w)

(* A display under construction: the bracket that opened it ("=" for the   *)
(* right-hand side of the statement itself), the elements read so far, the *)
(* commas and colons seen, and whether an element or a separator is next.  *)
Frame(open) ==
    [open |-> open, items |-> <<>>, commas |-> 0, colons |-> 0, need |-> "value"]

Closer(open) ==
    CASE open = "(" -> ")"
      [] open = "[" -> "]"
      [] open = "{" -> "}"
      [] OTHER -> ""

(* The key/value items of a dict display whose elements are k1, v1, k2, .. *)
Pairs(items) ==
    [j \in 1..(Len(items) \div 2) |-> ItemV(items[2 * j - 1], items[2 * j])]

(* A parenthesised form: ( e ) is e itself; () and any form with a comma,  *)
(* ( e, ) included, is a tuple.                                            *)
Paren(items, commas) ==
    IF commas = 0 /\ Len(items) = 1 THEN items[1] ELSE TupleV(items)

(* The node a closed display stands for.                                   *)
Display(f) ==
    CASE f.open = "[" -> ListV(f.items)
      [] f.open = "{" -> DictV(Pairs(f.items))
      [] OTHER -> Paren(f.items, f.commas)

(* Whether the display may be closed here.                                 *)
CanClose(f) ==
    CASE f.open = "{" -> Len(f.items) % 2 = 0 /\ f.colons = Len(f.items) \div 2
      [] f.open = "=" -> f.items # <<>>
      [] OTHER -> TRUE

(* Whether a comma, or a colon, may come here.                             *)
CanSep(f, w) ==
    /\ f.need = "sep"
    /\ IF w = ":"
       THEN f.open = "{" /\ Len(f.items) % 2 = 1
       ELSE f.open = "{" => Len(f.items) % 2 = 0

---------------------------------------------------------------------------
(* Evaluation of an expression node in a namespace.                        *)

RECURSIVE FreeNames(_)
FreeNames(e) ==
    IF e.t = "name" THEN {e.id}
    ELSE UNION {FreeNames(e.items[j]) : j \in 1..Len(e.items)}

(* d[key] = v on the items of a dict: a key already there keeps its place. *)
SetItem(kvs, key, v) ==
    IF \E j \in 1..Len(kvs) : kvs[j].items[1] = key
    THEN [j \in 1..Len(kvs) |->
            IF kvs[j].items[1] = key THEN ItemV(key, v) ELSE kvs[j]]
    ELSE Append(kvs, ItemV(key, v))

RECURSIVE BuildMap(_, _)
BuildMap(kvs, n) ==
    IF n = 0 THEN <<>>
    ELSE SetItem(BuildMap(kvs, n - 1), kvs[n].items[1], kvs[n].items[2])

RECURSIVE Eval(_, _)
Eval(e, env) ==
    CASE e.t = "name" -> env[e.id]
      [] e.t = "dict" ->
            DictV(BuildMap([j \in 1..Len(e.items) |-> Eval(e.items[j], env)],
                           Len(e.items)))
      [] e.t \in {"tuple", "list", "item"} ->
            [e EXCEPT !.items = [j \in 1..Len(e.items) |-> Eval(e.items[j], env)]]
      [] OTHER -> e

(* NAME = value: the namespace with the name bound (rebound, if it was).   *)
StoreName(env, name, v) ==
    [k \in DOMAIN env \cup {name} |-> IF k = name THEN v ELSE env[k]]

---------------------------------------------------------------------------
(* The load.                                                               *)

Init ==
    /\ phase = "compile"
    /\ err = ""
    /\ ip = 1
    /\ at = "target"
    /\ lhs = ""
    /\ stack = <<>>
    /\ code = <<>>
    /\ pc = 1
    /\ ns = [k \in {} |-> NoneV]
    /\ reads = {}

tok == pelicanconf[ip]
top == stack[Len(stack)]

Push(f)    == Append(stack, f)
Replace(f) == [stack EXCEPT ![Len(stack)] = f]

Parsing(where) == phase = "compile" /\ at = where

SyntaxError ==
    /\ phase' = "error"
    /\ err' = "SyntaxError"
    /\ UNCHANGED <<ip, at, lhs, stack, code, pc, ns, reads>>

(* The target of an assignment.                                            *)
Target ==
    /\ Parsing("target")
    /\ tok.k = "NAME"
    /\ lhs' = tok.w
    /\ at' = "assign"
    /\ ip' = ip + 1
    /\ UNCHANGED <<phase, err, stack, code, pc, ns, reads>>

(* The '=' after the target.                                               *)
Assign ==
    /\ Parsing("assign")
    /\ IF tok.k = "OP" /\ tok.w = "="
       THEN /\ at' = "expr"
            /\ stack' = <<Frame("=")>>
            /\ ip' = ip + 1
            /\ UNCHANGED <<phase, err, lhs, code, pc, ns, reads>>
       ELSE SyntaxError

(* A string, a number, a keyword constant or a name.                       *)
Load ==
    /\ Parsing("expr")
    /\ tok.k \in {"STRING", "NUMBER", "NAME"}
    /\ IF top.need = "value"
       THEN /\ stack' = Replace([top EXCEPT !.items = Append(@, Atom(tok)),
                                            !.need = "sep"])
            /\ ip' = ip + 1
            /\ UNCHANGED <<phase, err, at, lhs, code, pc, ns, reads>>
       ELSE SyntaxError

(* An opening bracket.                                                     *)
Open ==
    /\ Parsing("expr")
    /\ tok.k = "OP" /\ tok.w \in {"(", "[", "{"}
    /\ IF top.need = "value"
       THEN /\ stack' = Push(Frame(tok.w))
            /\ ip' = ip + 1
            /\ UNCHANGED <<phase, err, at, lhs, code, pc, ns, reads>>
       ELSE SyntaxError

(* A comma or a colon.                                                     *)
Sep ==
    /\ Parsing("expr")
    /\ tok.k = "OP" /\ tok.w \in {",", ":"}
    /\ IF CanSep(top, tok.w)
       THEN /\ stack' = Replace([top EXCEPT
                            !.commas = IF tok.w = "," THEN @ + 1 ELSE @,
                            !.colons = IF tok.w = ":" THEN @ + 1 ELSE @,
                            !.need = "value"])
            /\ ip' = ip + 1
            /\ UNCHANGED <<phase, err, at, lhs, code, pc, ns, reads>>
       ELSE SyntaxError

(* A closing bracket: the display becomes an element of the one around it. *)
Close ==
    /\ Parsing("expr")
    /\ tok.k = "OP" /\ tok.w \in {")", "]", "}"}
    /\ IF tok.w = Closer(top.open) /\ CanClose(top)
       THEN /\ LET outer == stack[Len(stack) - 1]
               IN  stack' = Append(SubSeq(stack, 1, Len(stack) - 2),
                                   [outer EXCEPT !.items = Append(@, Display(top)),
                                                 !.need = "sep"])
            /\ ip' = ip + 1
            /\ UNCHANGED <<phase, err, at, lhs, code, pc, ns, reads>>
       ELSE SyntaxError

(* The end of the statement: target = value joins the code.                *)
EndStmt ==
    /\ Parsing("expr")
    /\ tok.k = "NEWLINE"
    /\ IF Len(stack) = 1 /\ CanClose(top)
       THEN /\ code' = Append(code, [target |-> lhs, value |-> Display(top)])
            /\ stack' = <<>>
            /\ at' = "target"
            /\ ip' = ip + 1
            /\ UNCHANGED <<phase, err, lhs, pc, ns, reads>>
       ELSE SyntaxError

(* The end of the file: the module's code starts to run.                   *)
EndMarker ==
    /\ Parsing("target")
    /\ tok.k = "ENDMARKER"
    /\ phase' = IF code = <<>> THEN "done" ELSE "exec"
    /\ UNCHANGED <<err, ip, at, lhs, stack, code, pc, ns, reads>>

(* One assignment statement runs.                                          *)
Exec ==
    /\ phase = "exec"
    /\ LET st == code[pc]
           used == FreeNames(st.value)
       IN  IF used \subseteq DOMAIN ns
           THEN /\ ns' = StoreName(ns, st.target, Eval(st.value, ns))
                /\ reads' = reads \cup used
                /\ pc' = pc + 1
                /\ phase' = IF pc = Len(code) THEN "done" ELSE "exec"
                /\ err' = err
           ELSE /\ phase' = "error"
                /\ err' = "NameError"
                /\ UNCHANGED <<pc, ns, reads>>
    /\ UNCHANGED <<ip, at, lhs, stack, code>>

Next ==
    \/ Target
    \/ Assign
    \/ Load
    \/ Open
    \/ Sep
    \/ Close
    \/ EndStmt
    \/ EndMarker
    \/ Exec

Spec == Init /\ [][Next]_vars

(* The interpreter runs the load to its end: it does not stop half way.    *)
FairSpec == Spec /\ WF_vars(Next)

---------------------------------------------------------------------------
(* What the properties below say about values.                             *)

Loaded == phase = "done"

(* The names the file assigns.                                             *)
Settings == {Statements[j][1].w : j \in 1..Len(Statements)}

Range(xs) == {xs[j] : j \in 1..Len(xs)}

IsStr(v)   == v.t = "str"
IsInt(v)   == v.t = "int"
IsBool(v)  == v.t = "bool"
IsNone(v)  == v.t = "NoneType"
IsTuple(v) == v.t = "tuple"
IsDict(v)  == v.t = "dict"

NonEmptyStr(v) == IsStr(v) /\ v.s # <<>>

(* The keys of a dict, and d[key] for a key that is there.                 *)
KeysOf(d)   == {d.items[j].items[1] : j \in 1..Len(d.items)}
Get(d, key) == (CHOOSE kv \in Range(d.items) : kv.items[1] = key).items[2]

StartsWith(cs, prefix) ==
    /\ Len(cs) >= Len(prefix)
    /\ SubSeq(cs, 1, Len(prefix)) = prefix

Lower == {"a", "b", "c", "d", "e", "f", "g", "h", "i", "j", "k", "l", "m",
          "n", "o", "p", "q", "r", "s", "t", "u", "v", "w", "x", "y", "z"}
Upper == {"A", "B", "C", "D", "E", "F", "G", "H", "I", "J", "K", "L", "M",
          "N", "O", "P", "Q", "R", "S", "T", "U", "V", "W", "X", "Y", "Z"}
Digit == {"0", "1", "2", "3", "4", "5", "6", "7", "8", "9"}

(* The characters a URL may be written with (RFC 3986: unreserved,         *)
(* reserved, and the percent sign of an escape).  A space is not one.      *)
URLChars ==
    Lower \cup Upper \cup Digit
      \cup {"-", ".", "_", "~"}
      \cup {":", "/", "?", "#", "[", "]", "@"}
      \cup {"!", "$", "&", "'", "(", ")", "*", "+", ",", ";", "="}
      \cup {"%"}

(* A share-URL template: an https URL prefix, to which the theme appends   *)
(* the address of the article.                                             *)
WellFormedURLTemplate(v) ==
    /\ IsStr(v)
    /\ StartsWith(v.s, <<"h", "t", "t", "p", "s", ":", "/", "/">>)
    /\ Len(v.s) > 8
    /\ \A j \in 1..Len(v.s) : v.s[j] \in URLChars

---------------------------------------------------------------------------
(* Regular expressions, as far as TOC_HEADERS uses them: an optional       *)
(* leading '^', literal characters and bracketed ranges [a-b].  The toc    *)
(* plugin keeps the tags whose name the pattern is found in (re.search).   *)

Ordered == <<"0", "1", "2", "3", "4", "5", "6", "7", "8", "9",
             "a", "b", "c", "d", "e", "f", "g", "h", "i", "j", "k", "l", "m",
             "n", "o", "p", "q", "r", "s", "t", "u", "v", "w", "x", "y", "z">>

Ord(c) == CHOOSE j \in 1..Len(Ordered) : Ordered[j] = c

Anchored(p) == p # <<>> /\ p[1] = "^"

(* The pattern's atoms after the anchor: [lo, hi], a literal being [c, c]. *)
RECURSIVE Atoms(_, _)
Atoms(p, j) ==
    IF j > Len(p) THEN <<>>
    ELSE IF p[j] = "["
         THEN <<[lo |-> p[j + 1], hi |-> p[j + 3]]>> \o Atoms(p, j + 5)
         ELSE <<[lo |-> p[j], hi |-> p[j]]>> \o Atoms(p, j + 1)

MatchAt(atoms, cs, pos) ==
    /\ pos + Len(atoms) - 1 <= Len(cs)
    /\ \A j \in 1..Len(atoms) :
          LET c == cs[pos + j - 1]
          IN  /\ c \in Range(Ordered)
              /\ Ord(atoms[j].lo) <= Ord(c)
              /\ Ord(c) <= Ord(atoms[j].hi)

Search(p, cs) ==
    IF Anchored(p)
    THEN MatchAt(Atoms(p, 2), cs, 1)
    ELSE \E pos \in 1..Len(cs) : MatchAt(Atoms(p, 1), cs, pos)

(* Tag names to try the pattern on: every name of at most MaxTagLen        *)
(* characters over TagChars.                                               *)
MaxTagLen == 3
TagChars == {"h", "t", "1", "2", "3", "4"}
TagNames == UNION {[1..n -> TagChars] : n \in 1..MaxTagLen}

---------------------------------------------------------------------------
(* Properties.                                                             *)

(* C1: every value of PAGINATED_TEMPLATES is None or an integer, never a   *)
(* string; its keys are index, tag, category, author and archives; and     *)
(* DEFAULT_PAGINATION is an integer.                                       *)
PaginationValuesAreIntOrNone ==
    Loaded =>
        /\ IsDict(ns["PAGINATED_TEMPLATES"])
        /\ KeysOf(ns["PAGINATED_TEMPLATES"]) =
               { StrV(<<"i","n","d","e","x">>),
                 StrV(<<"t","a","g">>),
                 StrV(<<"c","a","t","e","g","o","r","y">>),
                 StrV(<<"a","u","t","h","o","r">>),
                 StrV(<<"a","r","c","h","i","v","e","s">>) }
        /\ \A key \in KeysOf(ns["PAGINATED_TEMPLATES"]) :
              LET v == Get(ns["PAGINATED_TEMPLATES"], key)
              IN  IsNone(v) \/ IsInt(v)
        /\ IsInt(ns["DEFAULT_PAGINATION"])

(* C1 witness: the load is over and the map has both kinds of value, a     *)
(* None and an integer page size.                                          *)
PaginationLoaded ==
    /\ Loaded
    /\ IsNone(Get(ns["PAGINATED_TEMPLATES"], StrV(<<"i","n","d","e","x">>)))
    /\ Get(ns["PAGINATED_TEMPLATES"], StrV(<<"a","r","c","h","i","v","e","s">>)) = IntV(24)
    /\ ns["DEFAULT_PAGINATION"] = IntV(8)

(* C2: every element of SHARE is a pair of a non-empty platform name and   *)
(* a well-formed URL template (https, no whitespace or other character     *)
(* that is illegal in a URL).                                              *)
ShareHoldsWellFormedPairs ==
    Loaded =>
        /\ IsTuple(ns["SHARE"])
        /\ \A e \in Range(ns["SHARE"].items) :
              /\ IsTuple(e)
              /\ Len(e.items) = 2
              /\ NonEmptyStr(e.items[1])
              /\ WellFormedURLTemplate(e.items[2])

(* C5: a setting is written once and never changes: no name is the target  *)
(* of two assignments, and a name that is bound stays bound to the same    *)
(* value in every later step.                                              *)
WrittenOnceNeverMutated ==
    /\ [](\A i, j \in 1..Len(code) : code[i].target = code[j].target => i = j)
    /\ [](DOMAIN ns = {code[j].target : j \in 1..(pc - 1)})
    /\ [][\A k \in DOMAIN ns : k \in DOMAIN ns' /\ ns'[k] = ns[k]]_vars

(* C5 witness: all 27 statements have run and bound 27 different names.    *)
AllWrittenOnce ==
    /\ Loaded
    /\ Len(code) = 27
    /\ pc = 28
    /\ Cardinality(DOMAIN ns) = 27

(* C6: the load cannot fail and always finishes: no error is ever raised,  *)
(* no right-hand side reads a name, and the load reaches its end with      *)
(* every setting defined.                                                  *)
LoadNeverFailsAndFinishes ==
    /\ [](phase # "error" /\ err = "" /\ reads = {})
    /\ <>(Loaded /\ DOMAIN ns = Settings)

(* C6 witness: the end of the load, with every setting defined.            *)
LoadFinished ==
    /\ Loaded
    /\ DOMAIN ns = Settings
    /\ err = ""
    /\ ip = Len(pelicanconf)

(* C7: each feed setting is None or a non-empty path string,               *)
(* RSS_FEED_SUMMARY_ONLY is a boolean, and the only feed enabled is        *)
(* FEED_ALL_ATOM.                                                          *)
Feeds ==
    {"FEED_ALL_ATOM", "CATEGORY_FEED_ATOM", "TRANSLATION_FEED_ATOM",
     "AUTHOR_FEED_ATOM", "AUTHOR_FEED_RSS"}

FeedSettingsTyped ==
    Loaded =>
        /\ \A f \in Feeds : IsNone(ns[f]) \/ NonEmptyStr(ns[f])
        /\ IsBool(ns["RSS_FEED_SUMMARY_ONLY"])
        /\ {f \in Feeds : ~IsNone(ns[f])} = {"FEED_ALL_ATOM"}

(* C7 witness: the load is over with the one feed path set and the         *)
(* summary flag on.                                                        *)
FeedsLoaded ==
    /\ Loaded
    /\ ns["FEED_ALL_ATOM"] =
          StrV(<<"f","e","e","d","s","/","a","l","l",".","a","t","o","m",".","x","m","l">>)
    /\ IsNone(ns["AUTHOR_FEED_RSS"])
    /\ ns["RSS_FEED_SUMMARY_ONLY"] = BoolV(TRUE)

(* C8: DISPLAY_PAGES_ON_MENU is a boolean, and DIRECT_TEMPLATES is a flat  *)
(* tuple of the template names index, tags, categories, archives, in that  *)
(* order: the doubled parentheses do not nest a tuple in a tuple.          *)
DirectTemplatesFlat ==
    Loaded =>
        /\ IsBool(ns["DISPLAY_PAGES_ON_MENU"])
        /\ IsTuple(ns["DIRECT_TEMPLATES"])
        /\ \A e \in Range(ns["DIRECT_TEMPLATES"].items) : IsStr(e)
        /\ ns["DIRECT_TEMPLATES"].items =
              << StrV(<<"i","n","d","e","x">>),
                 StrV(<<"t","a","g","s">>),
                 StrV(<<"c","a","t","e","g","o","r","i","e","s">>),
                 StrV(<<"a","r","c","h","i","v","e","s">>) >>

(* C8 witness: the load is over and DIRECT_TEMPLATES is a tuple of four.   *)
DirectTemplatesLoaded ==
    /\ Loaded
    /\ IsTuple(ns["DIRECT_TEMPLATES"])
    /\ Len(ns["DIRECT_TEMPLATES"].items) = 4
    /\ ns["DISPLAY_PAGES_ON_MENU"] = BoolV(TRUE)

(* C9: TOC['TOC_RUN'] is 'true', TOC['TOC_INCLUDE_TITLE'] is not 'true',   *)
(* and TOC['TOC_HEADERS'] is a pattern found in a tag name exactly when    *)
(* the name starts with h1, h2 or h3.                                      *)
TocRunsWithoutTitleOnH1ToH3 ==
    Loaded =>
        LET toc == ns["TOC"]
            true == StrV(<<"t","r","u","e">>)
            headers == Get(toc, StrV(<<"T","O","C","_","H","E","A","D","E","R","S">>))
        IN  /\ IsDict(toc)
            /\ Get(toc, StrV(<<"T","O","C","_","R","U","N">>)) = true
            /\ Get(toc, StrV(<<"T","O","C","_","I","N","C","L","U","D","E","_",
                               "T","I","T","L","E">>)) # true
            /\ IsStr(headers)
            /\ \A name \in TagNames :
                  Search(headers.s, name) <=>
                      /\ Len(name) >= 2
                      /\ name[1] = "h"
                      /\ name[2] \in {"1", "2", "3"}

(* C9 witness: the load is over, and the pattern keeps h2 and drops h4     *)
(* and th1.                                                                *)
TocLoaded ==
    /\ Loaded
    /\ LET headers == Get(ns["TOC"], StrV(<<"T","O","C","_","H","E","A","D","E","R","S">>))
       IN  /\ Search(headers.s, <<"h", "2">>)
           /\ ~Search(headers.s, <<"h", "4">>)
           /\ ~Search(headers.s, <<"t", "h", "1">>)

(* C10: every key of EXTRA_PATH_METADATA is an element of STATIC_PATHS,    *)
(* every value is a map with exactly the key 'path', and two different     *)
(* keys have different target paths.                                       *)
ExtraPathsAreStaticAndDistinct ==
    Loaded =>
        LET extra == ns["EXTRA_PATH_METADATA"]
            path == StrV(<<"p","a","t","h">>)
        IN  /\ IsDict(extra)
            /\ KeysOf(extra) \subseteq Range(ns["STATIC_PATHS"].items)
            /\ \A key \in KeysOf(extra) :
                  /\ IsDict(Get(extra, key))
                  /\ KeysOf(Get(extra, key)) = {path}
            /\ \A k1, k2 \in KeysOf(extra) :
                  Get(Get(extra, k1), path) = Get(Get(extra, k2), path) => k1 = k2

(* C10 witness: the load is over with two extra paths, robots.txt and      *)
(* favicon.ico, both among the three static paths.                         *)
ExtraPathsLoaded ==
    /\ Loaded
    /\ Len(ns["EXTRA_PATH_METADATA"].items) = 2
    /\ Len(ns["STATIC_PATHS"].items) = 3
    /\ Get(Get(ns["EXTRA_PATH_METADATA"],
               StrV(<<"e","x","t","r","a","/","r","o","b","o","t","s",".","t","x","t">>)),
           StrV(<<"p","a","t","h">>))
         = StrV(<<"r","o","b","o","t","s",".","t","x","t">>)

=============================================================================
